---- MODULE Spec2Model ----
(***************************************************************************)
(* Model of boomnet's RX timestamping layer (src/stream/timestamping.rs)   *)
(* and of the epoll multiplexer of examples/binance_fstream_bbo_ts_stats_  *)
(* tuned.rs.                                                               *)
(*                                                                         *)
(* 64-bit words.  TLC integers are 32 bits wide, so a u64 is kept as three *)
(* limbs <<hi, mid, lo>> in base 10^9 (value = hi*10^18 + mid*10^9 + lo).  *)
(* The base is the multiplier of ns_from_timespec, so x * 1_000_000_000 is *)
(* a limb shift and every intermediate sum stays below 2^31.               *)
(*                                                                         *)
(* The 512-byte control buffer is kept as 64 such words; a pointer into it *)
(* is a byte offset from its start (NULL is -1).  On x86_64 Linux a        *)
(* cmsghdr is two words: cmsg_len, then cmsg_level (low half) and          *)
(* cmsg_type (high half); a timespec is two words: tv_sec, tv_nsec.        *)
(***************************************************************************)
EXTENDS Integers, Sequences, FiniteSets, TLC

VARIABLES
    ts_in,           \* SpecNs: the timespec handed to ns_from_timespec
    ns_out,          \* SpecNs: <<>> before the call, <<result>> after it
    ctrl,            \* TimestampingStream.ctrl: the scratch buffer, 64 words
    last,            \* TimestampingStream.last: <<>> = None, <<v>> = Some(v)
    prev,            \* history: `last` as it was before the most recent call
    inp,             \* history: what the most recent recvmsg delivered
    ret,             \* history: what the most recent call returned
    reads,           \* number of read calls made so far
    pc,              \* multiplexer main: where it is
    iface,           \* std::env::args().nth(1) is Some
    epfd,            \* the epoll descriptor: "none", "open" or "closed"
    socks,           \* per socket created by the setup loop: what was done to it
    conns,           \* the Vec `conns`: for each token + 1, its position in socks
    events,          \* the events the last epoll_wait returned
    evi,             \* position of the dispatch loop in events (1-based)
    batch_reads,     \* history: read_batch_ts calls per token since the last epoll_wait
    batch,           \* history: the batch of the dispatch just made (rx option, read_ns, first sample), else <<>>
    last_wait,       \* history: the last epoll_wait call (timeout, result), <<>> before the first
    messages,
    nic_to_kernel,
    tls_to_userspace,
    nic_to_userspace,
    missing_hw,
    tuning_failed,   \* history: a best-effort tuning step has failed
    exit_cause,      \* history: the call whose error main propagated, or "none"
    failed_token     \* history: the token being dispatched when that call failed, or -1

streamVars == <<ctrl, last, prev, inp, ret, reads>>
nsVars == <<ts_in, ns_out>>
muxVars == <<pc, iface, epfd, socks, conns, events, evi, batch_reads, batch, last_wait, messages,
             nic_to_kernel,
             tls_to_userspace, nic_to_userspace, missing_hw, tuning_failed,
             exit_cause, failed_token>>

----------------------------------------------------------------------------
(* u64 arithmetic on limbs *)

NANOS_PER_SEC == 1000000000

U64_MAX == <<18, 446744073, 709551615>>
TWO_POW_64 == <<18, 446744073, 709551616>>
TWO_POW_32 == <<0, 4, 294967296>>
ZERO == <<0, 0, 0>>
\* stands for "the thread panicked" where a u64 is expected
PANIC == <<-1, -1, -1>>

U(n) == <<0, 0, n>>

LimbLt(a, b) ==
    \/ a[1] < b[1]
    \/ a[1] = b[1] /\ a[2] < b[2]
    \/ a[1] = b[1] /\ a[2] = b[2] /\ a[3] < b[3]

\* exact sum; the top limb is not reduced
LimbAdd(a, b) ==
    LET s3 == a[3] + b[3]
        s2 == a[2] + b[2] + (s3 \div NANOS_PER_SEC)
    IN  <<a[1] + b[1] + (s2 \div NANOS_PER_SEC), s2 % NANOS_PER_SEC, s3 % NANOS_PER_SEC>>

\* exact difference, for a >= b
LimbSub(a, b) ==
    LET d3 == a[3] - b[3]
        b3 == IF d3 < 0 THEN 1 ELSE 0
        d2 == a[2] - b[2] - b3
        b2 == IF d2 < 0 THEN 1 ELSE 0
    IN  <<a[1] - b[1] - b2, d2 + b2 * NANOS_PER_SEC, d3 + b3 * NANOS_PER_SEC>>

\* a * k by doubling
RECURSIVE LimbTimes(_, _)
LimbTimes(a, k) ==
    IF k = 0
    THEN ZERO
    ELSE LET h == LimbTimes(a, k \div 2)
             d == LimbAdd(h, h)
         IN  IF k % 2 = 1 THEN LimbAdd(d, a) ELSE d

\* u64::saturating_mul(x, 1_000_000_000)
saturating_mul_ns(x) ==
    IF x[1] > 0 \/ LimbLt(U64_MAX, <<x[2], x[3], 0>>)
    THEN U64_MAX
    ELSE <<x[2], x[3], 0>>

\* the `+` of two u64: the outcomes the build can produce on overflow are a
\* panic (overflow checks on, the debug profile) and wrap-around (checks off,
\* the release profile)
u64_add(a, b) ==
    LET s == LimbAdd(a, b)
    IN  IF LimbLt(U64_MAX, s)
        THEN {PANIC, LimbSub(s, TWO_POW_64)}
        ELSE {s}

\* the set of outcomes of ns_from_timespec(ts)
ns_from_timespec(ts) ==
    IF ts.tv_sec = ZERO /\ ts.tv_nsec = ZERO
    THEN {ZERO}
    ELSE u64_add(saturating_mul_ns(ts.tv_sec), ts.tv_nsec)

Timespec(sec, nsec) == [tv_sec |-> sec, tv_nsec |-> nsec]

----------------------------------------------------------------------------
(* Control messages *)

CTRL_BUF_SIZE == 512
\* mem::size_of::<libc::c_long>(), the alignment unit and the size of a word
C_LONG_SIZE == 8
\* mem::size_of::<libc::cmsghdr>()
CMSGHDR_SIZE == 16
\* mem::size_of::<ScmTimestamping>(): three timespecs
SCM_TIMESTAMPING_SIZE == 48
SOL_SOCKET == 1
SCM_TIMESTAMPING == 37
NULL == -1

CtrlWords == CTRL_BUF_SIZE \div C_LONG_SIZE

cmsg_align(len) == ((len + C_LONG_SIZE - 1) \div C_LONG_SIZE) * C_LONG_SIZE

\* the word at byte offset off (a multiple of 8) of the buffer
WordAt(buf, off) == buf[(off \div C_LONG_SIZE) + 1]

\* (*c).cmsg_len as usize.  Lengths written by the kernel are far below 10^9;
\* a word of 10^9 or more read as a length is kept as 10^9: every such length
\* reaches past the 512-byte buffer, which is all the code asks of it
cmsg_len(buf, c) ==
    LET w == WordAt(buf, c)
    IN  IF w[1] = 0 /\ w[2] = 0 THEN w[3] ELSE NANOS_PER_SEC

\* the second header word of an entry of the given level and type
HdrWord(level, type) == LimbAdd(LimbTimes(TWO_POW_32, type), U(level))

TimestampingHdrWord == HdrWord(SOL_SOCKET, SCM_TIMESTAMPING)

\* (*c).cmsg_level == libc::SOL_SOCKET && (*c).cmsg_type == SCM_TIMESTAMPING
is_timestamping(buf, c) == WordAt(buf, c + C_LONG_SIZE) = TimestampingHdrWord

cmsg_firsthdr_ignores_controllen(controllen) == 0
cmsg_firsthdr(controllen) ==
    IF controllen >= CMSGHDR_SIZE THEN 0 ELSE NULL

cmsg_nxthdr(buf, controllen, c) ==
    IF c = NULL
    THEN NULL
    ELSE LET next == c + cmsg_align(cmsg_len(buf, c))
         IN  IF next + CMSGHDR_SIZE > controllen
             THEN NULL
             ELSE IF next + cmsg_len(buf, next) > controllen
                  THEN NULL
                  ELSE next

cmsg_data(c) == c + cmsg_align(CMSGHDR_SIZE)

\* *tp: the three timespecs at the entry's data
ScmTimestampingAt(buf, c) ==
    [ i \in 0..2 |->
        Timespec(WordAt(buf, cmsg_data(c) + 2 * C_LONG_SIZE * i),
                 WordAt(buf, cmsg_data(c) + 2 * C_LONG_SIZE * i + C_LONG_SIZE)) ]

RxTimestamps(sw, sys, raw) == [sw_ns |-> sw, hw_sys_ns |-> sys, hw_raw_ns |-> raw]
RxDefault == RxTimestamps(ZERO, ZERO, ZERO)

decode_out_hw_swapped(t) ==
    { RxTimestamps(sw, sys, raw) :
        sw \in ns_from_timespec(t[0]),
        sys \in ns_from_timespec(t[2]),
        raw \in ns_from_timespec(t[1]) }

\* lines 198-200: the outcomes of filling the three fields of `out`
decode_out(t) ==
    { RxTimestamps(sw, sys, raw) :
        sw \in ns_from_timespec(t[0]),
        sys \in ns_from_timespec(t[1]),
        raw \in ns_from_timespec(t[2]) }

\* line 201: self.last = Some(out)
store_out_unless_zero(out) == IF out = RxDefault THEN <<>> ELSE <<out>>
store_out(out) == <<out>>

\* lines 192-202: the body run for a matching entry; cur is self.last before
\* it, the result the values self.last can have after it
matched_entry(buf, c, cur) ==
    LET hdr  == cmsg_align(CMSGHDR_SIZE)
        need == SCM_TIMESTAMPING_SIZE
        have == cmsg_len(buf, c)
    IN  IF have >= hdr + need
        THEN { store_out(out) : out \in decode_out(ScmTimestampingAt(buf, c)) }
        ELSE {cur}

RECURSIVE scan_cmsgs(_, _, _, _)

\* line 203 (`break`) inside the length test: an entry rejected for its length
\* does not end the loop
after_match_break_on_decode(buf, controllen, c, cur) ==
    IF cmsg_len(buf, c) >= cmsg_align(CMSGHDR_SIZE) + SCM_TIMESTAMPING_SIZE
    THEN matched_entry(buf, c, cur)
    ELSE scan_cmsgs(buf, controllen, cmsg_nxthdr(buf, controllen, c), cur)
\* lines 191-204: a matching entry ends the loop, decoded or not
after_match(buf, controllen, c, cur) == matched_entry(buf, c, cur)

\* stands for "the loop never ends" where self.last is expected
HANG == <<RxTimestamps(<<-2, -2, -2>>, <<-2, -2, -2>>, <<-2, -2, -2>>)>>

\* line 205: c = cmsg_nxthdr(msg, c)
next_cmsg(buf, controllen, c) == cmsg_nxthdr(buf, controllen, c)

\* lines 190-206: the while loop; the result is what self.last can be after it.
\* The buffer does not change during the loop, so a step that yields the
\* entry it started from repeats forever.
scan_cmsgs(buf, controllen, c, cur) ==
    IF c = NULL
    THEN {cur}
    ELSE IF is_timestamping(buf, c)
         THEN after_match(buf, controllen, c, cur)
         ELSE IF next_cmsg(buf, controllen, c) = c
              THEN {HANG}
              ELSE scan_cmsgs(buf, controllen, next_cmsg(buf, controllen, c), cur)

\* line 183: self.last = None on EOF
eof_last_keeps(old) == old
eof_last(old) == <<>>

\* line 187: self.last = None before the scan
reset_last_keeps(old) == old
reset_last(old) == <<>>

HasHang(l) == l = HANG

HasPanic(l) ==
    l # <<>> /\ PANIC \in {l[1].sw_ns, l[1].hw_sys_ns, l[1].hw_raw_ns}

err_last_clears(old) == <<>>

\* lines 179-181: n < 0 returns before self.last is assigned
err_last(old) == old

\* lines 178-208: what self.last can be after the call, given what recvmsg
\* returned (n) and wrote (buf, controllen)
read_last(buf, controllen, n, old) ==
    IF n < 0
    THEN {err_last(old)}
    ELSE IF n = 0
         THEN {eof_last(old)}
         ELSE scan_cmsgs(buf, controllen, cmsg_firsthdr(controllen), reset_last(old))

\* RxTimestamped::last_rx_timestamps(&self)
last_rx_timestamps(slot) == slot

take_last_keeps(slot) == [val |-> slot, slot |-> slot]

\* RxTimestamped::take_last_rx_timestamps(&mut self): self.last.take(), the
\* value returned and the slot after it
take_last_rx_timestamps(slot) == [val |-> slot, slot |-> <<>>]

----------------------------------------------------------------------------
(* What recvmsg delivers: a chain of entries, written from the start of the
   buffer; msg_controllen is set to the bytes written.  An entry occupies
   cmsg_align(len) bytes: two header words and its data words. *)

Entry(len, level, type, data) ==
    [len |-> len, level |-> level, type |-> type, data |-> data]

T_ZERO == Timespec(ZERO, ZERO)
T_1S == Timespec(U(1), ZERO)
T_2S == Timespec(U(2), ZERO)
T_1S5 == Timespec(U(1), U(5))

TsData(t0, t1, t2) ==
    <<t0.tv_sec, t0.tv_nsec, t1.tv_sec, t1.tv_nsec, t2.tv_sec, t2.tv_nsec>>

TsEntry(t0, t1, t2) ==
    Entry(cmsg_align(CMSGHDR_SIZE) + SCM_TIMESTAMPING_SIZE, SOL_SOCKET, SCM_TIMESTAMPING,
          TsData(t0, t1, t2))

\* raw hardware 1_000_000_000
TS_A == TsEntry(T_1S5, T_ZERO, T_1S)
\* raw hardware 2_000_000_000
TS_C == TsEntry(T_ZERO, T_1S5, T_2S)
TS_ZERO == TsEntry(T_ZERO, T_ZERO, T_ZERO)
\* a timestamping entry whose declared length covers one timespec and a half
TS_SHORT == Entry(40, SOL_SOCKET, SCM_TIMESTAMPING, <<U(2), ZERO, U(1)>>)
\* IP_TTL: level SOL_IP, a 4-byte payload
IP_TTL_ENTRY == Entry(20, 0, 2, <<U(64)>>)

Entries == {TS_A, TS_C, TS_ZERO, TS_SHORT, IP_TTL_ENTRY}

MaxChain == 2
MaxReads == 3

RECURSIVE SeqsUpTo(_, _)
SeqsUpTo(S, k) ==
    IF k = 0
    THEN {<<>>}
    ELSE LET shorter == SeqsUpTo(S, k - 1)
         IN  shorter \cup { Append(q, x) : q \in shorter, x \in S }

EntryWords(e) == <<U(e.len), HdrWord(e.level, e.type)>> \o e.data

RECURSIVE ChainWords(_)
ChainWords(chain) ==
    IF chain = <<>> THEN <<>> ELSE EntryWords(Head(chain)) \o ChainWords(Tail(chain))

Chains == { c \in SeqsUpTo(Entries, MaxChain) : Len(ChainWords(c)) <= CtrlWords }

IsMatching(e) == e.level = SOL_SOCKET /\ e.type = SCM_TIMESTAMPING

\* the buffer after the kernel wrote the words w at its start
Deliver(buf, w) == w \o SubSeq(buf, Len(w) + 1, CtrlWords)

ZeroCtrl == [ i \in 1..CtrlWords |-> ZERO ]

Outcome(n, chain) == [n |-> n, chain |-> chain, words |-> ChainWords(chain)]

\* recvmsg outcomes: an error (nothing written), or EOF or data with a chain
RecvOutcomes ==
    { Outcome(-1, <<>>) }
    \cup { Outcome(0, ch) : ch \in { c \in Chains : Len(c) <= 1 } }
    \cup { Outcome(5, ch) : ch \in Chains }

Result(op, kind, n, val) == [op |-> op, kind |-> kind, n |-> n, val |-> val]

\* the multiplexer is not running
MuxIdle ==
    /\ pc = "idle"
    /\ iface = FALSE
    /\ epfd = "none"
    /\ socks = <<>>
    /\ conns = <<>>
    /\ events = <<>>
    /\ evi = 0
    /\ batch_reads = <<>>
    /\ last_wait = <<>>
    /\ batch = <<>>
    /\ messages = 0
    /\ nic_to_kernel = <<>>
    /\ tls_to_userspace = <<>>
    /\ nic_to_userspace = <<>>
    /\ missing_hw = 0
    /\ tuning_failed = FALSE
    /\ exit_cause = "none"
    /\ failed_token = NULL

----------------------------------------------------------------------------
(* Spec: one TimestampingStream and the calls made on it *)

\* TimestampingStream::new
Init ==
    /\ ts_in = T_ZERO
    /\ ns_out = <<>>
    /\ ctrl = ZeroCtrl
    /\ last = <<>>
    /\ prev = <<>>
    /\ inp = [n |-> -1, chain |-> <<>>, controllen |-> 0]
    /\ ret = Result("new", "Ok", 0, <<>>)
    /\ reads = 0
    /\ MuxIdle

\* Read::read, recvmsg's outcome being r
ReadStep(r) ==
    /\ reads < MaxReads
    /\ ret.kind \notin {"Panic", "Hang"}
    /\ LET controllen == C_LONG_SIZE * Len(r.words)
            buf == IF r.n < 0 THEN ctrl ELSE Deliver(ctrl, r.words)
        IN  \E l \in read_last(buf, controllen, r.n, last) :
                /\ ctrl' = buf
                /\ last' = IF HasPanic(l) \/ HasHang(l) THEN reset_last(last) ELSE l
                /\ ret' = IF r.n < 0 THEN Result("read", "Err", r.n, <<>>)
                          ELSE IF HasPanic(l) THEN Result("read", "Panic", 0, <<>>)
                          ELSE IF HasHang(l) THEN Result("read", "Hang", 0, <<>>)
                          ELSE Result("read", "Ok", r.n, <<>>)
                /\ prev' = last
                /\ inp' = [n |-> r.n, chain |-> r.chain, controllen |-> controllen]
                /\ reads' = reads + 1
                /\ UNCHANGED <<nsVars, muxVars>>

\* Read::read on control data as the kernel writes it
Read == \E r \in RecvOutcomes : ReadStep(r)

\* RxTimestamped::take_last_rx_timestamps
TakeLastRxTimestamps ==
    /\ ret.kind \notin {"Panic", "Hang"}
    /\ ret' = Result("take_last_rx_timestamps", "Ok", 0, take_last_rx_timestamps(last).val)
    /\ last' = take_last_rx_timestamps(last).slot
    /\ prev' = last
    /\ UNCHANGED <<nsVars, muxVars, ctrl, inp, reads>>

\* RxTimestamped::last_rx_timestamps
LastRxTimestamps ==
    /\ ret.kind \notin {"Panic", "Hang"}
    /\ ret' = Result("last_rx_timestamps", "Ok", 0, last_rx_timestamps(last))
    /\ prev' = last
    /\ UNCHANGED <<nsVars, muxVars, ctrl, last, inp, reads>>

Next == Read \/ TakeLastRxTimestamps \/ LastRxTimestamps

vars == <<nsVars, streamVars, muxVars>>

Spec == Init /\ [][Next]_vars

----------------------------------------------------------------------------
(* SpecRaw: the same stream, reading control data whose declared lengths are
   not what the kernel would write: an entry of length 0, an entry shorter
   than its header, and chains cut short (msg_controllen smaller than the
   lengths the entries declare). *)

ZERO_LEN_ENTRY == Entry(0, 0, 2, <<>>)
TINY_ENTRY == Entry(8, 0, 2, <<>>)

RawEntries == {TS_A, IP_TTL_ENTRY, ZERO_LEN_ENTRY, TINY_ENTRY}

RawChains == SeqsUpTo(RawEntries, MaxChain)

\* msg_controllen, in words, of the deliveries that are cut short: the header
\* alone, the header and half of the first record's data
CutWords == {2, 5}

RawOutcomes ==
    { Outcome(-1, <<>>) }
    \cup { Outcome(5, ch) : ch \in RawChains }
    \cup { [n |-> 5, chain |-> ch, words |-> SubSeq(ChainWords(ch), 1, k)] :
            ch \in { c \in RawChains : c # <<>> /\ Head(c) = TS_A }, k \in CutWords }

ReadRaw == \E r \in RawOutcomes : ReadStep(r)

NextRaw == ReadRaw \/ TakeLastRxTimestamps

SpecRaw == Init /\ [][NextRaw]_vars

----------------------------------------------------------------------------
(* SpecFwd: the stream and the calls it hands on to the layer it wraps *)

\* Write, Selectable, ConnectionInfoProvider, AsRawFd, Source
ForwardOps ==
    {"write", "flush", "connected", "make_writable", "make_readable",
     "connection_info", "as_raw_fd", "register", "reregister", "deregister"}

\* the arguments of a call, the receiver aside
ForwardArgs(op) ==
    IF op = "write" THEN { <<"buf", b>> : b \in { <<1>>, <<1, 2>> } }
    ELSE IF op \in {"register", "reregister"}
    THEN { <<"registry", t, i>> : t \in {0, 1}, i \in {"READABLE", "READABLE|WRITABLE"} }
    ELSE IF op = "deregister" THEN { <<"registry">> }
    ELSE { <<>> }

\* what the wrapped layer can answer
InnerResults(op, args) ==
    IF op = "write" THEN { <<"Ok", n>> : n \in 0..Len(args[2]) } \cup { <<"Err">> }
    ELSE IF op = "connected" THEN { <<"Ok", TRUE>>, <<"Ok", FALSE>>, <<"Err">> }
    ELSE IF op = "connection_info" THEN { <<"info">> }
    ELSE IF op = "as_raw_fd" THEN { <<3>>, <<4>> }
    ELSE { <<"Ok">>, <<"Err">> }

forward_drops_args(op, args) == [op |-> op, args |-> <<>>]

\* lines 146-150, 213-256: the call made on self.inner (for Source, by the
\* registry on behalf of the stream)
forward(op, args) == [op |-> op, args |-> args]

\* the value handed back to the caller
forward_result(res) == res

\* one forwarded call: ret.val keeps the arguments, the call the wrapped
\* layer received, its answer and the value returned
Forward ==
    /\ ret.kind \notin {"Panic", "Hang"}
    /\ \E op \in ForwardOps : \E args \in ForwardArgs(op) :
       \E res \in InnerResults(op, args) :
            ret' = Result(op, "Fwd", 0,
                          [args |-> args, inner |-> forward(op, args),
                           inner_res |-> res, res |-> forward_result(res)])
    /\ prev' = last
    /\ UNCHANGED <<nsVars, muxVars, ctrl, last, inp, reads>>

FwdOutcomes ==
    { Outcome(-1, <<>>), Outcome(0, <<>>), Outcome(5, <<>>), Outcome(5, <<TS_A>>) }

ReadFwd == \E r \in FwdOutcomes : ReadStep(r)

NextFwd == ReadFwd \/ Forward

SpecFwd == Init /\ [][NextFwd]_vars

----------------------------------------------------------------------------
(* SpecNs: ns_from_timespec applied to one timespec *)

\* tv_sec values around floor(2^64 / 10^9) = 18446744073 and i64::MAX
SecInputs ==
    { ZERO, U(1), U(2), <<0, 1, 700000000>>, <<0, 18, 0>>,
      <<0, 18, 446744072>>, <<0, 18, 446744073>>, <<0, 18, 446744074>>,
      <<9, 223372036, 854775807>> }

\* tv_nsec values around 2^64 - 18446744073 * 10^9 = 709551616
NsecInputs ==
    { ZERO, U(1), U(500000000), U(709551615), U(709551616), U(999999999) }

InitNs ==
    /\ ts_in \in { Timespec(s, n) : s \in SecInputs, n \in NsecInputs }
    /\ ns_out = <<>>
    /\ ctrl = <<>>
    /\ last = <<>>
    /\ prev = <<>>
    /\ inp = <<>>
    /\ ret = <<>>
    /\ reads = 0
    /\ MuxIdle

NsApply ==
    /\ ns_out = <<>>
    /\ \E v \in ns_from_timespec(ts_in) : ns_out' = <<v>>
    /\ UNCHANGED <<ts_in, streamVars, muxVars>>

NextNs == NsApply

SpecNs == InitNs /\ [][NextNs]_vars

----------------------------------------------------------------------------
(* SpecMux: main of examples/binance_fstream_bbo_ts_stats_tuned.rs.
   CONN_COUNT is 11 and TARGET_SAMPLES 200_000 in the source; the model runs
   the same loops with smaller values. *)

CONN_COUNT == 2
TARGET_SAMPLES == 2
\* frames one batch yields at most
MaxFrames == 2

\* what a system call returns: 0 on success, -1 on failure
SysRc == {0, -1}

\* pin_to_core: sched_setaffinity
pin_to_core(rc) == IF rc # 0 THEN "Err" ELSE "Ok"

\* set_so_busy_poll, set_so_prefer_busy_poll, set_so_rcvlowat: setsockopt
set_so_busy_poll(rc) == IF rc < 0 THEN "Err" ELSE "Ok"
set_so_prefer_busy_poll(rc) == IF rc < 0 THEN "Err" ELSE "Ok"
set_so_rcvlowat(rc) == IF rc < 0 THEN "Err" ELSE "Ok"

\* enable_rx_timestamping: setsockopt(SO_TIMESTAMPING)
enable_rx_timestamping(rc) == IF rc < 0 THEN "Err" ELSE "Ok"

\* configure_hwtstamp, into_tcp_stream, into_tls_stream: io::Result
IoResults == {"Ok", "Err"}

\* enable_calls: calls of enable_rx_timestamping on the descriptor; enabled:
\* SO_TIMESTAMPING is set; wrapped: a TimestampingStream owns it; token,
\* interest: its EPOLL_CTL_ADD registration (NULL, {} without one)
Sock(enable_calls, enabled, wrapped, token, interest, open) ==
    [enable_calls |-> enable_calls, enabled |-> enabled, wrapped |-> wrapped,
     token |-> token, interest |-> interest, open |-> open]

\* epoll_event.events of the registration
EPOLLIN_EPOLLOUT == {"EPOLLIN", "EPOLLOUT"}

\* main returns: every socket owned by a local is dropped, which closes it
DropAll(ss) == [i \in 1..Len(ss) |-> [ss[i] EXCEPT !.open = FALSE]]

\* the descriptor is in the interest list of epfd
Registered(sk) == sk.open /\ sk.token # NULL

\* clock_realtime_ns(): 0 when clock_gettime fails
NOW == <<1, 790000000, 5000>>
LATER == <<1, 790000000, 7000>>
ReadClock == {ZERO, NOW}
ReadyClock == {ZERO, LATER}

\* hardware clocks: one behind the system clock, one 37 s ahead of it
HW_EARLY == <<1, 790000000, 1000>>
HW_AHEAD == <<1, 790000037, 1000>>

\* batch.rx_timestamps(): Option<RxTimestamps>
RxOptions ==
    { <<>>, <<RxDefault>>, <<RxTimestamps(NOW, ZERO, HW_EARLY)>>,
      <<RxTimestamps(ZERO, ZERO, HW_AHEAD)>> }

\* Option::unwrap_or_default
unwrap_or_stale(opt) == IF opt = <<>> THEN RxTimestamps(NOW, ZERO, HW_EARLY) ELSE opt[1]

unwrap_or_default(opt) == IF opt = <<>> THEN RxDefault ELSE opt[1]

\* u64::saturating_sub
saturating_sub(a, b) == IF LimbLt(b, a) THEN LimbSub(a, b) ELSE ZERO

TWO_POW_63 == <<9, 223372036, 854775808>>

\* `as i64` of a u64: sign and magnitude
as_i64(x) ==
    IF LimbLt(x, TWO_POW_63)
    THEN [neg |-> FALSE, mag |-> x]
    ELSE [neg |-> TRUE, mag |-> LimbSub(TWO_POW_64, x)]

I64_ZERO == [neg |-> FALSE, mag |-> ZERO]

\* the frames batch.iter() yields: Ok(Text), Ok(other kind), or one Err
FramePrefixes == SeqsUpTo({"Text", "Other"}, MaxFrames)

FrameSeqs ==
    FramePrefixes \cup { Append(f, "Err") : f \in { g \in FramePrefixes : Len(g) < MaxFrames } }

\* ws.read_batch_ts(): io::Result<Batch>
ReadBatchOutcomes ==
    { [kind |-> "Err", rx |-> <<>>, frames |-> <<>>] }
    \cup { [kind |-> "Ok", rx |-> rx, frames |-> f] : rx \in RxOptions, f \in FrameSeqs }

\* the locals the frame loop updates
Samples(m, ntk, ttu, ntu, mh, err) ==
    [messages |-> m, nic_to_kernel |-> ntk, tls_to_userspace |-> ttu,
     nic_to_userspace |-> ntu, missing_hw |-> mh, err |-> err]

\* lines 109-130: one Text frame
on_text(st, rx, read_ns, ready_ns) ==
    LET hw_ok == rx.hw_raw_ns # ZERO /\ read_ns # ZERO
        nic_to_kernel_ns ==
            IF hw_ok THEN as_i64(saturating_sub(read_ns, rx.hw_raw_ns)) ELSE I64_ZERO
        tls_to_userspace_ns ==
            IF ready_ns # ZERO /\ read_ns # ZERO
            THEN as_i64(saturating_sub(ready_ns, read_ns)) ELSE I64_ZERO
        nic_to_userspace_ns ==
            IF rx.hw_raw_ns # ZERO /\ ready_ns # ZERO
            THEN as_i64(saturating_sub(ready_ns, rx.hw_raw_ns)) ELSE I64_ZERO
    IN  Samples(st.messages + 1,
                Append(st.nic_to_kernel, nic_to_kernel_ns),
                Append(st.tls_to_userspace, tls_to_userspace_ns),
                Append(st.nic_to_userspace, nic_to_userspace_ns),
                IF hw_ok THEN st.missing_hw ELSE st.missing_hw + 1,
                st.err)

\* lines 131 and 136: messages >= TARGET_SAMPLES
target_reached_never(m) == FALSE

target_reached(m) == m >= TARGET_SAMPLES

\* lines 107-135: the frame loop, for every outcome of the ready_ns clock reads
RECURSIVE run_frames(_, _, _, _)
run_frames(frames, rx, read_ns, st) ==
    IF frames = <<>>
    THEN {st}
    ELSE IF Head(frames) = "Err"
    THEN {[st EXCEPT !.err = TRUE]}
    ELSE IF Head(frames) # "Text"
    THEN run_frames(Tail(frames), rx, read_ns, st)
    ELSE UNION { LET st2 == on_text(st, rx, read_ns, ready_ns)
                 IN  IF target_reached(st2.messages)
                     THEN {st2}
                     ELSE run_frames(Tail(frames), rx, read_ns, st2)
                 : ready_ns \in ReadyClock }

\* epoll_event.events of a reported descriptor
EventBits == { {"EPOLLIN"}, {"EPOLLERR"} }

Event(bits, token) == [events |-> bits, u64 |-> token]

\* line 94: the event carries EPOLLIN or EPOLLOUT
IsReady(ev) == ev.events \cap EPOLLIN_EPOLLOUT # {}

\* what epoll_wait can report: each registered descriptor at most once
EventLists ==
    { es \in SeqsUpTo({ Event(b, socks[i].token) :
                            b \in EventBits,
                            i \in { j \in 1..Len(socks) : Registered(socks[j]) } },
                      Len(conns)) :
        /\ es # <<>>
        /\ \A i, j \in 1..Len(es) : i # j => es[i].u64 # es[j].u64 }

StreamUnused ==
    /\ ts_in = T_ZERO
    /\ ns_out = <<>>
    /\ ctrl = <<>>
    /\ last = <<>>
    /\ prev = <<>>
    /\ inp = <<>>
    /\ ret = <<>>
    /\ reads = 0

\* lines 23-24
InitMux ==
    /\ StreamUnused
    /\ pc = "pin_to_core"
    /\ iface \in BOOLEAN
    /\ epfd = "none"
    /\ socks = <<>>
    /\ conns = <<>>
    /\ events = <<>>
    /\ evi = 0
    /\ batch_reads = <<>>
    /\ last_wait = <<>>
    /\ batch = <<>>
    /\ messages = 0
    /\ nic_to_kernel = <<>>
    /\ tls_to_userspace = <<>>
    /\ nic_to_userspace = <<>>
    /\ missing_hw = 0
    /\ tuning_failed = FALSE
    /\ exit_cause = "none"
    /\ failed_token = NULL

sampleVars == <<messages, nic_to_kernel, tls_to_userspace, nic_to_userspace, missing_hw>>
cycleVars == <<events, evi, batch_reads, batch, last_wait>>

\* main returns Err: the error of `call`, raised while `token` was dispatched
ReturnErr(call, token) ==
    /\ pc' = "exit_err"
    /\ exit_cause' = call
    /\ failed_token' = token

\* line 25: pin_to_core(APP_CPU)?
PinToCore ==
    /\ pc = "pin_to_core"
    /\ \E rc \in SysRc :
        IF pin_to_core(rc) = "Err"
        THEN ReturnErr("pin_to_core", NULL)
        ELSE /\ pc' = "epoll_create1"
             /\ UNCHANGED <<exit_cause, failed_token>>
    /\ UNCHANGED <<nsVars, streamVars, iface, epfd, socks, conns, cycleVars, sampleVars,
                   tuning_failed>>

\* lines 27-32: epoll_create1
EpollCreate ==
    /\ pc = "epoll_create1"
    /\ \E rc \in SysRc :
        IF rc < 0
        THEN /\ ReturnErr("epoll_create1", NULL)
             /\ UNCHANGED epfd
        ELSE /\ pc' = "setup"
             /\ epfd' = "open"
             /\ UNCHANGED <<exit_cause, failed_token>>
    /\ UNCHANGED <<nsVars, streamVars, iface, socks, conns, cycleVars, sampleVars,
                   tuning_failed>>

register_token_fixed(idx) == 0

\* line 60: u64: idx as u64
register_token(idx) == idx

setup_sock_ignoring_enable(idx, enable, tls, ctl) ==
    LET on == enable_rx_timestamping(enable) = "Ok"
    IN  IF tls = "Err"
        THEN [sock |-> Sock(1, on, TRUE, NULL, {}, TRUE), err |-> "into_tls_stream"]
        ELSE IF ctl < 0
        THEN [sock |-> Sock(1, on, TRUE, NULL, {}, TRUE), err |-> "epoll_ctl"]
        ELSE [sock |-> Sock(1, on, TRUE, register_token(idx), EPOLLIN_EPOLLOUT, TRUE),
              err |-> "none"]

\* lines 54-66, for a socket into_tcp_stream has made: the socket as the pass
\* leaves it, and the call whose error ended the pass ("none": it is pushed)
setup_sock(idx, enable, tls, ctl) ==
    IF enable_rx_timestamping(enable) = "Err"
    THEN [sock |-> Sock(1, FALSE, FALSE, NULL, {}, TRUE), err |-> "enable_rx_timestamping"]
    ELSE IF tls = "Err"
    THEN [sock |-> Sock(1, TRUE, TRUE, NULL, {}, TRUE), err |-> "into_tls_stream"]
    ELSE IF ctl < 0
    THEN [sock |-> Sock(1, TRUE, TRUE, NULL, {}, TRUE), err |-> "epoll_ctl"]
    ELSE [sock |-> Sock(1, TRUE, TRUE, register_token(idx), EPOLLIN_EPOLLOUT, TRUE),
          err |-> "none"]

\* lines 34-69: one pass of the setup loop, idx = conns.len()
ConnSetup ==
    /\ pc = "setup"
    /\ \E tcp, hw, tls \in IoResults : \E busy, prefer, lowat, enable, ctl \in SysRc :
        LET idx == Len(conns)
            warn == \/ iface /\ hw = "Err"
                    \/ set_so_busy_poll(busy) = "Err"
                    \/ set_so_prefer_busy_poll(prefer) = "Err"
                    \/ set_so_rcvlowat(lowat) = "Err"
            r == setup_sock(idx, enable, tls, ctl)
        IN  IF tcp = "Err"
            THEN /\ ReturnErr("into_tcp_stream", NULL)
                 /\ socks' = DropAll(socks)
                 /\ UNCHANGED <<epfd, conns, tuning_failed>>
            ELSE IF r.err # "none"
            THEN /\ ReturnErr(r.err, NULL)
                 /\ epfd' = IF r.err = "epoll_ctl" THEN "closed" ELSE epfd
                 /\ socks' = DropAll(Append(socks, r.sock))
                 /\ tuning_failed' = (tuning_failed \/ warn)
                 /\ UNCHANGED conns
            ELSE /\ socks' = Append(socks, r.sock)
                 /\ conns' = Append(conns, Len(socks) + 1)
                 /\ tuning_failed' = (tuning_failed \/ warn)
                 /\ pc' = IF idx + 1 < CONN_COUNT THEN "setup" ELSE "wait"
                 /\ UNCHANGED <<epfd, exit_cause, failed_token>>
    /\ UNCHANGED <<nsVars, streamVars, iface, cycleVars, sampleVars>>

\* line 79: epoll_wait(epfd, events, 128, 0) and what it returned:
\* "EINTR", "error" (any other errno), "none" (n = 0) or "ready" (n > 0)
epoll_wait_blocking(rc) == <<[timeout |-> -1, rc |-> rc]>>

epoll_wait(rc) == <<[timeout |-> 0, rc |-> rc]>>

\* lines 78-91: the loop test and one readiness wait
EpollWait ==
    /\ pc = "wait"
    /\ messages < TARGET_SAMPLES
    /\ \/ \* n < 0, Interrupted: continue
          /\ events' = <<>>
          /\ last_wait' = epoll_wait("EINTR")
          /\ UNCHANGED <<pc, epfd, socks, exit_cause, failed_token>>
       \/ \* n < 0, any other error
          /\ events' = <<>>
          /\ last_wait' = epoll_wait("error")
          /\ ReturnErr("epoll_wait", NULL)
          /\ epfd' = "closed"
          /\ socks' = DropAll(socks)
       \/ \* n = 0: spin
          /\ events' = <<>>
          /\ last_wait' = epoll_wait("none")
          /\ UNCHANGED <<pc, epfd, socks, exit_cause, failed_token>>
       \/ \* n > 0
          /\ events' \in EventLists
          /\ last_wait' = epoll_wait("ready")
          /\ pc' = "dispatch"
          /\ UNCHANGED <<epfd, socks, exit_cause, failed_token>>
    /\ evi' = 1
    /\ batch_reads' = [i \in 1..Len(conns) |-> 0]
    /\ batch' = <<>>
    /\ UNCHANGED <<nsVars, streamVars, iface, conns, sampleVars, tuning_failed>>

\* lines 136-139: the event loop moves on, or ends with the events or the target
EventDone(m) ==
    /\ evi' = evi + 1
    /\ pc' = IF target_reached(m) \/ evi = Len(events) THEN "wait" ELSE "dispatch"

\* lines 94-100: `continue`, the event loop moves to the next event
skip_event_ends_cycle(m) ==
    /\ evi' = Len(events) + 1
    /\ pc' = "wait"

skip_event(m) == EventDone(m)

\* lines 93-139: one pass of the event loop
Dispatch ==
    /\ pc = "dispatch"
    /\ LET ev == events[evi]
           idx == ev.u64
       IN  IF ~IsReady(ev) \/ idx >= Len(conns)
           THEN /\ skip_event(messages)
                /\ batch' = <<>>
                /\ UNCHANGED <<batch_reads, sampleVars, socks, exit_cause, failed_token>>
           ELSE \E b \in ReadBatchOutcomes :
                /\ batch_reads' = [batch_reads EXCEPT ![idx + 1] = @ + 1]
                /\ IF b.kind = "Err"
                   THEN /\ ReturnErr("read_batch_ts", idx)
                        /\ socks' = DropAll(socks)
                        /\ batch' = <<>>
                        /\ UNCHANGED <<evi, sampleVars>>
                   ELSE \E read_ns \in ReadClock :
                        \E st \in run_frames(b.frames, unwrap_or_default(b.rx), read_ns,
                                             Samples(messages, nic_to_kernel, tls_to_userspace,
                                                     nic_to_userspace, missing_hw, FALSE)) :
                            /\ batch' = <<[rx |-> b.rx, read_ns |-> read_ns,
                                          first |-> messages + 1]>>
                            /\ messages' = st.messages
                            /\ nic_to_kernel' = st.nic_to_kernel
                            /\ tls_to_userspace' = st.tls_to_userspace
                            /\ nic_to_userspace' = st.nic_to_userspace
                            /\ missing_hw' = st.missing_hw
                            /\ IF st.err
                               THEN /\ ReturnErr("frame", idx)
                                    /\ socks' = DropAll(socks)
                                    /\ UNCHANGED evi
                               ELSE /\ EventDone(st.messages)
                                    /\ UNCHANGED <<socks, exit_cause, failed_token>>
    /\ UNCHANGED <<nsVars, streamVars, iface, epfd, conns, events, last_wait, tuning_failed>>

\* lines 142-147: the target is reached
Done ==
    /\ pc = "wait"
    /\ messages >= TARGET_SAMPLES
    /\ pc' = "done"
    /\ epfd' = "closed"
    /\ socks' = DropAll(socks)
    /\ UNCHANGED <<nsVars, streamVars, iface, conns, cycleVars, sampleVars, tuning_failed,
                   exit_cause, failed_token>>

NextMux == PinToCore \/ EpollCreate \/ ConnSetup \/ EpollWait \/ Dispatch \/ Done

SpecMux == InitMux /\ [][NextMux]_vars

\* the thread of main is never suspended for ever
SpecMuxLive == InitMux /\ [][NextMux]_vars /\ WF_vars(NextMux)

----------------------------------------------------------------------------
\* C4: decoding (seconds, nanoseconds) yields seconds*1_000_000_000 +
\* nanoseconds as a u64, saturating at u64::MAX when the exact value is
\* larger (for the product and for the final sum alike); (0, 0) yields 0.

\* the exact value as four limbs
ExactNs(ts) ==
    LET s0 == ts.tv_nsec[3]
        s1 == ts.tv_sec[3] + ts.tv_nsec[2]
        s2 == ts.tv_sec[2] + ts.tv_nsec[1] + (s1 \div NANOS_PER_SEC)
    IN  <<ts.tv_sec[1] + (s2 \div NANOS_PER_SEC), s2 % NANOS_PER_SEC, s1 % NANOS_PER_SEC, s0>>

SaturatedNs(ts) ==
    LET e == ExactNs(ts)
        low == <<e[2], e[3], e[4]>>
    IN  IF e[1] > 0 \/ LimbLt(U64_MAX, low) THEN U64_MAX ELSE low

C4_SaturatingDecode ==
    ns_out # <<>> => ns_out[1] = SaturatedNs(ts_in)

----------------------------------------------------------------------------
(* Claims about TimestampingStream::read, checked under Spec *)

ReadOk == ret.op = "read" /\ ret.kind = "Ok"

\* indices of the SOL_SOCKET/SCM_TIMESTAMPING entries of a chain
MatchingAt(chain) == { i \in 1..Len(chain) : IsMatching(chain[i]) }
HasTimestamping(chain) == MatchingAt(chain) # {}
FirstMatching(chain) ==
    chain[CHOOSE i \in MatchingAt(chain) : \A j \in MatchingAt(chain) : i <= j]

\* the words of the chain most recently delivered
InpWords == ChainWords(inp.chain)

\* a header of a timestamping entry lies in the part of the buffer the most
\* recent recvmsg did not write
StaleTimestampingHdr ==
    \E i \in (Len(InpWords) + 1)..CtrlWords : ctrl[i] = TimestampingHdrWord

\* what the caller observes: is a value present, and hw_raw_ns of
\* last_rx_timestamps().unwrap_or_default()
Observed ==
    LET v == last_rx_timestamps(last)
    IN  IF v = <<>> THEN <<FALSE, RxDefault.hw_raw_ns>> ELSE <<TRUE, v[1].hw_raw_ns>>

\* self.last after the same recvmsg outcome on a stream fresh from new()
FreshRead(r) ==
    read_last(Deliver(ZeroCtrl, ChainWords(r.chain)),
              C_LONG_SIZE * Len(ChainWords(r.chain)), r.n, <<>>)

\* C1: after a read that returned Ok, last_rx_timestamps() is a function of
\* the ancillary data of that read alone: it is what a freshly constructed
\* stream would hold after the same recvmsg outcome; and reads carrying raw
\* hardware 1_000_000_000, no timestamping entry, 2_000_000_000 are observed
\* as (present, 1_000_000_000), (absent, 0), (present, 2_000_000_000).
C1_LastDependsOnlyOnLatestRead ==
    ReadOk =>
        /\ FreshRead(inp) = {last_rx_timestamps(last)}
        /\ (inp.n > 0 /\ inp.chain = <<TS_A>>) => Observed = <<TRUE, <<0, 1, 0>>>>
        /\ (inp.n > 0 /\ ~HasTimestamping(inp.chain)) => Observed = <<FALSE, ZERO>>
        /\ (inp.n > 0 /\ inp.chain = <<TS_C>>) => Observed = <<TRUE, <<0, 2, 0>>>>

\* the middle read of the example: the slot held raw 1_000_000_000, the read
\* delivered no control data at all, the old entry is still in the buffer
C1_Witness ==
    /\ ReadOk
    /\ inp.n > 0
    /\ inp.chain = <<>>
    /\ prev # <<>>
    /\ prev[1].hw_raw_ns = <<0, 1, 0>>
    /\ ctrl[2] = TimestampingHdrWord
    /\ Observed = <<FALSE, ZERO>>

\* C2: a read of more than 0 bytes whose chain has no SOL_SOCKET /
\* SCM_TIMESTAMPING entry (the empty chain included) leaves the slot absent,
\* whatever it held before and whatever earlier reads left in the buffer.
C2_NoEntryLeavesAbsent ==
    (ReadOk /\ inp.n > 0 /\ ~HasTimestamping(inp.chain)) => last = <<>>

C2_Witness ==
    /\ ReadOk
    /\ inp.n > 0
    /\ inp.chain # <<>>
    /\ ~HasTimestamping(inp.chain)
    /\ prev # <<>>
    /\ StaleTimestampingHdr
    /\ last = <<>>

\* C3: a read whose recvmsg returns 0 returns Ok(0) and leaves the slot
\* absent, whatever the slot held and whatever control data came with it.
C3_EofClears ==
    (ret.op = "read" /\ inp.n = 0) =>
        /\ ret.kind = "Ok"
        /\ ret.n = 0
        /\ last = <<>>

C3_Witness ==
    /\ ret.op = "read"
    /\ inp.n = 0
    /\ prev # <<>>
    /\ inp.chain \in {<<TS_A>>, <<TS_C>>}
    /\ ret = Result("read", "Ok", 0, <<>>)
    /\ last = <<>>

\* the entry's three records, decoded from the chain
RecordsOf(e) ==
    RxTimestamps(SaturatedNs(Timespec(e.data[1], e.data[2])),
                 SaturatedNs(Timespec(e.data[3], e.data[4])),
                 SaturatedNs(Timespec(e.data[5], e.data[6])))

LongEnough(e) == e.len >= cmsg_align(CMSGHDR_SIZE) + SCM_TIMESTAMPING_SIZE

\* C5: a non-EOF read whose first timestamping entry is long enough and holds
\* three all-zero records leaves the slot present with {0, 0, 0}, which
\* last_rx_timestamps() tells apart from the absent slot.
C5_ZeroEntryIsPresent ==
    ( /\ ReadOk
      /\ inp.n > 0
      /\ HasTimestamping(inp.chain)
      /\ LongEnough(FirstMatching(inp.chain))
      /\ FirstMatching(inp.chain).data = TsData(T_ZERO, T_ZERO, T_ZERO) )
    => /\ last_rx_timestamps(last) = <<RxDefault>>
       /\ last_rx_timestamps(last) # last_rx_timestamps(<<>>)

C5_Witness ==
    /\ ReadOk
    /\ inp.n > 0
    /\ inp.chain = <<IP_TTL_ENTRY, TS_ZERO>>
    /\ last = <<RxTimestamps(ZERO, ZERO, ZERO)>>

\* C6: with several SOL_SOCKET/SCM_TIMESTAMPING entries in the chain only the
\* first one counts: the slot holds its records if its declared length is at
\* least the aligned header plus three records, and is absent if it is
\* shorter; no later entry is decoded.
C6_OnlyFirstMatchingEntry ==
    (ReadOk /\ inp.n > 0 /\ Cardinality(MatchingAt(inp.chain)) >= 2) =>
        IF LongEnough(FirstMatching(inp.chain))
        THEN last = <<RecordsOf(FirstMatching(inp.chain))>>
        ELSE last = <<>>

C6_Witness ==
    /\ ReadOk
    /\ inp.n > 0
    /\ inp.chain = <<TS_SHORT, TS_A>>
    /\ prev # <<>>
    /\ last = <<>>

----------------------------------------------------------------------------
(* The multiplexer claims, under SpecMux *)

\* the event loop of the current wait cycle has ended
CycleOver == pc \in {"wait", "done", "exit_err"} /\ events # <<>>

\* C7: in every wait cycle each connection the cycle reported ready gets
\* exactly one read_batch call: once the cycle's event loop has ended every
\* reported-ready token has been read once, and at no time has a token been
\* read twice in one cycle.
C7_ExactlyOneReadPerReadyConn ==
    /\ \A t \in 1..Len(batch_reads) : batch_reads[t] <= 1
    /\ CycleOver =>
        \A i \in 1..Len(events) :
            IsReady(events[i]) => batch_reads[events[i].u64 + 1] = 1

\* C8: when read_batch fails on one connection only that connection is
\* closed and deregistered; main goes on, and every other connection stays
\* registered.
C8_ReadErrorClosesOnlyOffender ==
    exit_cause = "read_batch_ts" =>
        /\ pc \in {"wait", "dispatch", "done"}
        /\ \A t \in 1..Len(conns) :
            Registered(socks[conns[t]]) <=> (t - 1 # failed_token)

\* C9: a frame error ends only the batch it was raised in: the samples of
\* the frames before it stay, main goes on, and every connection, the one
\* of the batch included, stays registered.
C9_FrameErrorEndsOnlyBatch ==
    exit_cause = "frame" =>
        /\ pc \in {"wait", "dispatch", "done"}
        /\ \A t \in 1..Len(conns) : Registered(socks[conns[t]])

\* the steps C10 lists as best effort
BestEffortSteps ==
    {"configure_hwtstamp", "set_so_busy_poll", "set_so_prefer_busy_poll",
     "set_so_rcvlowat", "pin_to_core"}

\* C10: no failure of a best-effort tuning step aborts setup: main never
\* returns the error of such a step, so whenever main has stopped before
\* all CONN_COUNT connections were registered, another call had failed.
C10_TuningFailureNeverAbortsSetup ==
    /\ exit_cause \notin BestEffortSteps
    /\ pc = "exit_err" /\ Len(conns) < CONN_COUNT =>
        exit_cause \in {"epoll_create1", "into_tcp_stream", "enable_rx_timestamping",
                        "into_tls_stream", "epoll_ctl"}

\* C11: enable_rx_timestamping is called exactly once on every socket, no
\* connection is read whose socket does not have the option set, and a socket
\* on which the call failed is never wrapped in a TimestampingStream, never
\* registered and never read: main returns that error.
C11_EnableOnceBeforeReadOrStop ==
    /\ \A i \in 1..Len(socks) :
        /\ socks[i].enable_calls = 1
        /\ ~socks[i].enabled =>
            /\ ~socks[i].wrapped
            /\ socks[i].token = NULL
            /\ socks[i].interest = {}
            /\ \A t \in 1..Len(conns) : conns[t] # i
            /\ pc = "exit_err" /\ exit_cause = "enable_rx_timestamping"
    /\ \A t \in 1..Len(batch_reads) :
        batch_reads[t] > 0 => socks[conns[t]].enabled

\* the second socket's enable_rx_timestamping failed after the first
\* connection had been registered
C11_Witness ==
    /\ pc = "exit_err"
    /\ exit_cause = "enable_rx_timestamping"
    /\ Len(socks) = 2
    /\ Len(conns) = 1
    /\ socks[1].enabled /\ socks[1].token = 0
    /\ ~socks[2].enabled /\ ~socks[2].wrapped /\ socks[2].token = NULL

\* C12: a read whose recvmsg returns a negative value returns the error and
\* leaves the slot exactly as it was before the call.
C12_ErrLeavesSlot ==
    (ret.op = "read" /\ inp.n < 0) =>
        /\ ret.kind = "Err"
        /\ last = prev

\* the failing read came after a read that had captured timestamps
C12_Witness ==
    /\ ret = Result("read", "Err", -1, <<>>)
    /\ inp.n < 0
    /\ prev # <<>>
    /\ last = prev
    /\ reads >= 2

\* record i (0, 1, 2) of an entry's data, in nanoseconds: seconds *
\* 1_000_000_000 + nanoseconds, as three limbs (the records of the entries
\* read here are all far below 2^64)
RecordNs(e, i) ==
    LET x == ExactNs(Timespec(e.data[2 * i + 1], e.data[2 * i + 2]))
    IN  <<x[2], x[3], x[4]>>

\* C15: for a valid timestamping entry record 0 alone gives sw_ns, record 1
\* alone hw_sys_ns and record 2 alone hw_raw_ns, each as seconds *
\* 1_000_000_000 + nanoseconds; so records (1 s 5 ns, 0, 1 s) give
\* hw_sys_ns = 0 and hw_raw_ns = 1_000_000_000.
C15_PositionalDecode ==
    ( /\ ReadOk
      /\ inp.n > 0
      /\ HasTimestamping(inp.chain)
      /\ LongEnough(FirstMatching(inp.chain)) )
    => /\ last # <<>>
       /\ last[1].sw_ns = RecordNs(FirstMatching(inp.chain), 0)
       /\ last[1].hw_sys_ns = RecordNs(FirstMatching(inp.chain), 1)
       /\ last[1].hw_raw_ns = RecordNs(FirstMatching(inp.chain), 2)
       /\ FirstMatching(inp.chain) = TS_A =>
            last[1] = RxTimestamps(<<0, 1, 5>>, ZERO, <<0, 1, 0>>)

C15_Witness ==
    /\ ReadOk
    /\ inp.n > 0
    /\ inp.chain = <<IP_TTL_ENTRY, TS_A>>
    /\ last # <<>>
    /\ last[1].sw_ns = <<0, 1, 5>>
    /\ last[1].hw_sys_ns = ZERO
    /\ last[1].hw_raw_ns = <<0, 1, 0>>

\* C16: the slot holds at most one value; take_last_rx_timestamps returns
\* the value the slot held and leaves it absent, so a take or a
\* last_rx_timestamps that follows without a read returns absent;
\* last_rx_timestamps returns the slot's value and leaves the slot as it was.
C16_TakeClearsPeekKeeps ==
    /\ Len(last) <= 1
    /\ ret.op = "new" => last = <<>>
    /\ ret.op = "take_last_rx_timestamps" =>
        /\ ret.val = prev
        /\ last = <<>>
        /\ last_rx_timestamps(last) = <<>>
        /\ take_last_rx_timestamps(last).val = <<>>
    /\ ret.op = "last_rx_timestamps" =>
        /\ ret.val = prev
        /\ last = prev
        /\ last_rx_timestamps(last) = ret.val

\* a take that returned absent although the last read had stored a value:
\* an earlier take had emptied the slot
C16_Witness ==
    /\ ret = Result("take_last_rx_timestamps", "Ok", 0, <<>>)
    /\ inp.n > 0
    /\ inp.chain = <<TS_A>>
    /\ last = <<>>

\* every connection of `conns` is one socket, registered for EPOLLIN |
\* EPOLLOUT under the token that is its index, and no other socket is
\* registered
RegisteredByIndex ==
    /\ \A t \in 1..Len(conns) :
        /\ socks[conns[t]].token = t - 1
        /\ socks[conns[t]].interest = EPOLLIN_EPOLLOUT
        /\ \A u \in 1..Len(conns) : u # t => conns[u] # conns[t]
    /\ \A i \in 1..Len(socks) :
        socks[i].token # NULL => \E t \in 1..Len(conns) : conns[t] = i

\* a step reads connection t only while dispatching the event that carries
\* t's token, and reads no other connection; a step of the loop after which
\* main is still running leaves every connection's socket as it was (main's
\* return, which drops all of them, is not a step of the loop)
ReadsOnlyOwnEvent ==
    /\ \A t \in 1..Len(batch_reads) :
        (Len(batch_reads') = Len(batch_reads) /\ batch_reads'[t] > batch_reads[t]) =>
            /\ pc = "dispatch"
            /\ events[evi].u64 = t - 1
            /\ events[evi].u64 = socks[conns[t]].token
            /\ \A u \in 1..Len(batch_reads) : u # t => batch_reads'[u] = batch_reads[u]
    /\ (pc \in {"wait", "dispatch"} /\ pc' \in {"wait", "dispatch"}) =>
            socks' = socks /\ conns' = conns

\* C18: every connection is registered once, for read+write interest, with
\* its index in the connection array as token; an event with token i makes
\* the loop read connection i and no other.
C18_TokenIsIndex == [](RegisteredByIndex) /\ [][ReadsOnlyOwnEvent]_vars

\* the event of token 1 came first and connection 1 alone has been read
C18_Witness ==
    /\ Len(conns) = CONN_COUNT
    /\ Len(events) = 2
    /\ events[1].u64 = 1
    /\ evi = 2
    /\ batch_reads = <<0, 1>>
    /\ socks[conns[2]].token = 1

\* the step is a readiness wait of the loop
WaitStep == pc = "wait" /\ messages < TARGET_SAMPLES /\ last_wait' # <<>>

\* C19: every readiness wait has timeout 0; a wait that reports nothing
\* ready or is interrupted reads no connection, changes no counter or sample
\* list and leaves the loop at its next wait (pc = "wait" below the target
\* enables EpollWait and nothing else); a wait that fails otherwise
\* ends main with the error of epoll_wait.
C19_EmptyWaitSpins ==
    /\ [](last_wait # <<>> => last_wait[1].timeout = 0)
    /\ [][WaitStep =>
            /\ last_wait'[1].rc \in {"none", "EINTR"} =>
                /\ \A t \in 1..Len(batch_reads') : batch_reads'[t] = 0
                /\ UNCHANGED <<sampleVars, socks, conns, epfd, exit_cause>>
                /\ pc' = "wait"
                /\ messages' < TARGET_SAMPLES
            /\ last_wait'[1].rc = "error" =>
                /\ pc' = "exit_err"
                /\ exit_cause' = "epoll_wait"
                /\ UNCHANGED sampleVars
         ]_vars

\* after a cycle that read a connection, a wait found nothing ready and the
\* loop is at its next wait
C19_Witness ==
    /\ pc = "wait"
    /\ last_wait = epoll_wait("none")
    /\ messages = 1
    /\ \A t \in 1..Len(batch_reads) : batch_reads[t] = 0

\* a wait failed with an error other than EINTR and main returned it
C19_WitnessError ==
    /\ pc = "exit_err"
    /\ last_wait = epoll_wait("error")
    /\ exit_cause = "epoll_wait"

\* the hw_raw_ns the batch carries: zero when it has no timestamps
BatchHw == IF batch[1].rx = <<>> THEN ZERO ELSE batch[1].rx[1].hw_raw_ns

\* read_ns - hw_raw_ns as the sample vectors hold it, for the last batch
BatchNicToKernel ==
    IF BatchHw = ZERO \/ batch[1].read_ns = ZERO
    THEN I64_ZERO
    ELSE IF LimbLt(BatchHw, batch[1].read_ns)
    THEN [neg |-> FALSE, mag |-> LimbSub(batch[1].read_ns, BatchHw)]
    ELSE I64_ZERO

\* C20: every Text frame of one batch is sampled against the one
\* RxTimestamps taken from the batch before its frames are iterated, with
\* all-zero timestamps when the batch has none; a batch without timestamps
\* or with hw_raw_ns = 0 records 0 as the NIC-to-kernel sample of each of
\* its Text frames.
C20_OneRxPerBatch ==
    batch # <<>> =>
        \A k \in batch[1].first..Len(nic_to_kernel) :
            /\ nic_to_kernel[k] = BatchNicToKernel
            /\ BatchHw = ZERO =>
                /\ nic_to_kernel[k] = I64_ZERO
                /\ nic_to_userspace[k] = I64_ZERO
            /\ (BatchHw # ZERO /\ nic_to_userspace[k] # I64_ZERO) =>
                nic_to_userspace[k] = [neg |-> FALSE, mag |-> LimbSub(LATER, BatchHw)]

\* one batch without timestamps yielded two Text frames
C20_Witness ==
    /\ batch # <<>>
    /\ batch[1].rx = <<>>
    /\ batch[1].first = 1
    /\ Len(nic_to_kernel) = 2
    /\ missing_hw = 2

\* one batch with a hardware timestamp yielded two Text frames
C20_WitnessHw ==
    /\ batch # <<>>
    /\ BatchHw = HW_EARLY
    /\ batch[1].read_ns = NOW
    /\ batch[1].first = 1
    /\ Len(nic_to_kernel) = 2
    /\ nic_to_kernel[1] # I64_ZERO

\* the counter is within the target and the three vectors have its length
CountedSamples ==
    /\ messages <= TARGET_SAMPLES
    /\ Len(nic_to_kernel) = messages
    /\ Len(tls_to_userspace) = messages
    /\ Len(nic_to_userspace) = messages

\* C21: the message counter never exceeds TARGET_SAMPLES, the three sample
\* lists always have as many entries as the counter, and once the counter
\* has reached TARGET_SAMPLES no further frame is sampled and no further
\* ready connection of the cycle is read.
C21_StopsAtTarget ==
    /\ [](CountedSamples)
    /\ [](messages >= TARGET_SAMPLES => pc \in {"wait", "done"})
    /\ [][messages >= TARGET_SAMPLES =>
            UNCHANGED <<sampleVars, batch_reads, evi, events>>]_vars

\* the target was reached on the first of two ready connections, by a batch
\* that began below it; the second was left unread
C21_Witness ==
    /\ messages = TARGET_SAMPLES
    /\ Len(events) = 2
    /\ evi = 2
    /\ IsReady(events[1])
    /\ IsReady(events[2])
    /\ batch # <<>>
    /\ batch[1].first = TARGET_SAMPLES
    /\ batch_reads[events[1].u64 + 1] = 1
    /\ batch_reads[events[2].u64 + 1] = 0

\* epoll_wait reports a connection with EPOLLIN or EPOLLOUT
WaitReportsReady ==
    EpollWait /\ \E i \in 1..Len(events') : IsReady(events'[i])

\* the batch read from the ready connection yields a Text frame
DispatchText == Dispatch /\ messages' > messages

\* Text frames keep arriving on some registered connection: as long as the
\* loop keeps waiting, a wait reports a ready connection again, and as long
\* as ready connections keep being read, a batch carries a Text frame again
TextKeepsArriving == SF_vars(WaitReportsReady) /\ SF_vars(DispatchText)

\* C22: if no call fails and Text frames keep arriving on at least one
\* registered connection, the loop ends with messages = TARGET_SAMPLES,
\* whatever events without EPOLLIN and EPOLLOUT are reported for the other
\* connections and skipped.
C22_TerminatesAtTarget ==
    ([](exit_cause = "none") /\ TextKeepsArriving)
        => <>(pc = "done" /\ messages = TARGET_SAMPLES)

\* main ended at the target after a cycle whose first event carried neither
\* bit and was skipped unread, the second connection supplying the frame
C22_Witness ==
    /\ pc = "done"
    /\ exit_cause = "none"
    /\ messages = TARGET_SAMPLES
    /\ Len(events) = 2
    /\ ~IsReady(events[1])
    /\ IsReady(events[2])
    /\ batch_reads[events[1].u64 + 1] = 0
    /\ batch_reads[events[2].u64 + 1] = 1

----------------------------------------------------------------------------
(* Claims about arbitrary control data, under SpecRaw *)

\* C13: the scan of the chain in read terminates for every content of the
\* received control data, an entry of declared length 0 or shorter than the
\* header included: no read call is left looping.
C13_ScanTerminates == ret.op = "read" => ret.kind # "Hang"

RECURSIVE scan_stop(_, _, _)
\* the entry at which the scan of a read that returned stopped (NULL: the
\* chain ran out)
scan_stop(buf, controllen, c) ==
    IF c = NULL \/ is_timestamping(buf, c)
    THEN c
    ELSE scan_stop(buf, controllen, next_cmsg(buf, controllen, c))

\* C14: the records a read decodes lie inside the control data that read
\* received: whenever a read has stored timestamps, the entry it decoded,
\* the first one of the chain included, ends within msg_controllen.
C14_DecodedInsideReceived ==
    (ReadOk /\ inp.n > 0 /\ last # <<>> /\ ret.op = "read") =>
        LET c == scan_stop(ctrl, inp.controllen, cmsg_firsthdr(inp.controllen))
        IN  c + cmsg_len(ctrl, c) <= inp.controllen

----------------------------------------------------------------------------
(* The forwarded capabilities, under SpecFwd *)

\* C17: every capability other than read hands the call to the wrapped layer
\* with the same operation and arguments, returns the wrapped layer's answer,
\* and leaves the last-captured slot and the scratch buffer as they were.
C17_ForwardingIsTransparent ==
    [][ ret'.kind = "Fwd" =>
            /\ ret'.val.inner = [op |-> ret'.op, args |-> ret'.val.args]
            /\ ret'.val.res = ret'.val.inner_res
            /\ last' = last
            /\ ctrl' = ctrl ]_vars

\* a register with its token and interests forwarded while the slot holds a
\* value and the buffer an entry
C17_Witness ==
    /\ ret.kind = "Fwd"
    /\ ret.op = "register"
    /\ ret.val.args = <<"registry", 1, "READABLE|WRITABLE">>
    /\ ret.val.res = <<"Err">>
    /\ last # <<>>
    /\ ctrl[2] = TimestampingHdrWord

====
